---------------------------- MODULE Spec2Model ----------------------------
(***************************************************************************)
(* Model of metachat-chat-service: the chat service (internal/service),    *)
(* its repository over the chats and messages tables (internal/repository) *)
(* and the status mapping of the gRPC adapter (internal/grpc).             *)
(*                                                                         *)
(* One step of a client is one round trip to the database: the service     *)
(* holds no lock and opens no transaction, so the statements of concurrent *)
(* calls interleave freely.  Identifiers are UUIDs in the program; here    *)
(* they are integers, which keeps their order (the cursor of               *)
(* GetChatMessages compares identifiers).                                  *)
(***************************************************************************)
EXTENDS Integers, Sequences, FiniteSets, TLC

\* ------------------------------------------------------------------ bounds
MaxChats == 2
MaxMsgs == 2
MaxTime == 2

\* ------------------------------------------------------- sets and constants
Procs == {"p1", "p2"}
Users == {"u1", "u2", "u3"}
Contents == {"hi"}
ChatIds == 1..MaxChats
\* the chat ids a request may name: those, and one no chat has
RequestChatIds == 1..(MaxChats + 1)
MsgIds == 1..MaxMsgs
Limits == {-1, 0, 1, 2, 100, 101}

DefaultLimit == 50
MaxLimit == 100
\* time.Time{}: the value of a CreatedAt/UpdatedAt field the service never sets
ZeroTime == 0
\* beforeMessageID == "": no cursor
NoCursor == 0
\* read_at IS NULL, and a set read_at
NULL == <<>>
Some(t) == <<t>>

ErrSelfChat == "cannot create chat with yourself"
ErrChatNotFound == "chat not found"
ErrNotParticipant == "user is not a participant in this chat"
NoError == ""
\* the error of database/sql when the backend cannot be reached: the repository
\* hands it on as it is
ErrStore == "driver: bad connection"

VARIABLES
    chats,      \* table chats: a set of rows
    messages,   \* table messages: the rows, in the order they were inserted
    now,        \* the database clock, NOW()
    pc,         \* per client: the statement its call in progress runs next
    req,        \* per client: the arguments of its call in progress
    resp,       \* the response the last step returned to its caller, if it returned
    returned,   \* history: <<pair, chat id>> of every successful CreateChat
    serial,     \* TRUE when the clients issue their calls one at a time
    marked      \* history: the sum of the counts MarkMessagesAsRead has returned

vars == <<chats, messages, now, pc, req, resp, returned, serial, marked>>

\* got, start: what a paging client has received so far, and the messages the
\* chat held when it started
NoReq ==
    [a |-> "", b |-> "", chat |-> 0, content |-> "", id |-> 0,
     limit |-> 0, got |-> <<>>, start |-> {}]
\* what chatRepository.GetChatMessages returned to the service
NoStore == [page |-> <<>>, err |-> NoError]
\* fault: the statement of the call the backend failed, if any
NoResp ==
    [op |-> "none", a |-> "", b |-> "", chat |-> 0, limit |-> 0, before |-> 0,
     storeLimit |-> 0, err |-> NoError, id |-> 0, count |-> 0, page |-> <<>>,
     store |-> NoStore, fault |-> "", start |-> {}]

\* ------------------------------------------------------------- repository
\* GetChatByUsers with a WHERE clause that matches one order of the pair only
GetChatByUsersSameOrder(userID1, userID2) ==
    {c \in chats : c.user1 = userID1 /\ c.user2 = userID2}

\* rows the SELECT of GetChatByUsers matches (LIMIT 1 then returns one of them)
GetChatByUsers(userID1, userID2) ==
    {c \in chats : \/ (c.user1 = userID1 /\ c.user2 = userID2)
                   \/ (c.user1 = userID2 /\ c.user2 = userID1)}

GetChatByID(id) == {c \in chats : c.id = id}

\* the row UNIQUE(user_id1, user_id2) makes an INSERT conflict with
UniqueConflict(userID1, userID2) ==
    {c \in chats : c.user1 = userID1 /\ c.user2 = userID2}

\* a participant check that lets every user through
IsParticipantUnchecked(chat, userID) == TRUE

IsParticipant(chat, userID) == chat.user1 = userID \/ chat.user2 = userID

\* whether client p may take a step: always, unless calls are issued one at a time
Sched(p) == serial => \A q \in Procs \ {p} : pc[q] = "idle"

\* a call that is answered in one round trip needs some client free to issue it
CanCall == \E p \in Procs : pc[p] = "idle" /\ Sched(p)

\* uuid.New(): an identifier no row has and no call in flight holds
FreshChatIds ==
    ChatIds \ ({c.id : c \in chats}
               \cup {req[q].id : q \in {r \in Procs : pc[r] = "CreateChat_insert"}})
FreshMsgIds ==
    MsgIds \ ({messages[i].id : i \in DOMAIN messages}
              \cup {req[q].id : q \in {r \in Procs : pc[r] = "SendMessage_insert"}})
\* the lowest of them
LowestFreshMsgId == {i \in FreshMsgIds : \A j \in FreshMsgIds : i <= j}

\* ---------------------------------------------------------------- CreateChat
CreateChatSelf(u) ==
    /\ CanCall
    /\ resp' = [NoResp EXCEPT !.op = "CreateChat", !.a = u, !.b = u, !.err = ErrSelfChat]
    /\ UNCHANGED <<chats, messages, now, pc, req, returned, serial, marked>>

CreateChatExisting(u1, u2) ==
    /\ CanCall
    /\ u1 # u2
    /\ \E c \in GetChatByUsers(u1, u2) :
         /\ resp' = [NoResp EXCEPT !.op = "CreateChat", !.a = u1, !.b = u2, !.id = c.id]
         /\ returned' = returned \cup {<<{u1, u2}, c.id>>}
    /\ UNCHANGED <<chats, messages, now, pc, req, serial, marked>>

\* CreateChat without the test userID1 == userID2
CreateChatLookupMissUnchecked(p, u1, u2, id) ==
    /\ pc[p] = "idle" /\ Sched(p)
    /\ GetChatByUsers(u1, u2) = {}
    /\ id \in FreshChatIds
    /\ pc' = [pc EXCEPT ![p] = "CreateChat_insert"]
    /\ req' = [req EXCEPT ![p] = [NoReq EXCEPT !.a = u1, !.b = u2, !.id = id]]
    /\ resp' = NoResp
    /\ UNCHANGED <<chats, messages, now, returned, serial, marked>>

CreateChatLookupMiss(p, u1, u2, id) ==
    /\ pc[p] = "idle" /\ Sched(p)
    /\ u1 # u2
    /\ GetChatByUsers(u1, u2) = {}
    /\ id \in FreshChatIds
    /\ pc' = [pc EXCEPT ![p] = "CreateChat_insert"]
    /\ req' = [req EXCEPT ![p] = [NoReq EXCEPT !.a = u1, !.b = u2, !.id = id]]
    /\ resp' = NoResp
    /\ UNCHANGED <<chats, messages, now, returned, serial, marked>>

\* the row CreateChat inserts: created_at and updated_at are chat.CreatedAt and
\* chat.UpdatedAt, which the service leaves at their zero value
NewChat(id, userID1, userID2) ==
    [id |-> id, user1 |-> userID1, user2 |-> userID2,
     createdAt |-> ZeroTime, updatedAt |-> ZeroTime]

\* INSERT ... ON CONFLICT (user_id1, user_id2) DO UPDATE SET updated_at = NOW()
\* RETURNING id: the table afterwards and the id returned
RepoCreateChat(id, userID1, userID2) ==
    LET hit == UniqueConflict(userID1, userID2)
    IN  IF hit # {}
        THEN {[table |-> (chats \ {c}) \cup {[c EXCEPT !.updatedAt = now]}, id |-> c.id] :
                c \in hit}
        ELSE {[table |-> chats \cup {NewChat(id, userID1, userID2)}, id |-> id]}

CreateChatInsert(p) ==
    /\ pc[p] = "CreateChat_insert"
    /\ \E r \in RepoCreateChat(req[p].id, req[p].a, req[p].b) :
         /\ chats' = r.table
         /\ resp' = [NoResp EXCEPT !.op = "CreateChat", !.a = req[p].a, !.b = req[p].b,
                                   !.id = r.id]
         /\ returned' = returned \cup {<<{req[p].a, req[p].b}, r.id>>}
    /\ pc' = [pc EXCEPT ![p] = "idle"]
    /\ req' = [req EXCEPT ![p] = NoReq]
    /\ UNCHANGED <<messages, now, serial, marked>>

\* --------------------------------------------------------------- SendMessage
SendMessageNotFound(chatID, senderID) ==
    /\ CanCall
    /\ GetChatByID(chatID) = {}
    /\ resp' = [NoResp EXCEPT !.op = "SendMessage", !.chat = chatID, !.a = senderID,
                              !.err = ErrChatNotFound]
    /\ UNCHANGED <<chats, messages, now, pc, req, returned, serial, marked>>

SendMessageDenied(chatID, senderID) ==
    /\ CanCall
    /\ \E chat \in GetChatByID(chatID) : ~IsParticipant(chat, senderID)
    /\ resp' = [NoResp EXCEPT !.op = "SendMessage", !.chat = chatID, !.a = senderID,
                              !.err = ErrNotParticipant]
    /\ UNCHANGED <<chats, messages, now, pc, req, returned, serial, marked>>

\* SendMessage without the lookup of the chat and the participant check
SendMessageLookupUnchecked(p, chatID, senderID, content, id) ==
    /\ pc[p] = "idle" /\ Sched(p)
    /\ id \in FreshMsgIds
    /\ pc' = [pc EXCEPT ![p] = "SendMessage_insert"]
    /\ req' = [req EXCEPT ![p] = [NoReq EXCEPT !.chat = chatID, !.a = senderID,
                                               !.content = content, !.id = id]]
    /\ resp' = NoResp
    /\ UNCHANGED <<chats, messages, now, returned, serial, marked>>

SendMessageLookup(p, chatID, senderID, content, id) ==
    /\ pc[p] = "idle" /\ Sched(p)
    /\ \E chat \in GetChatByID(chatID) : IsParticipant(chat, senderID)
    /\ id \in FreshMsgIds
    /\ pc' = [pc EXCEPT ![p] = "SendMessage_insert"]
    /\ req' = [req EXCEPT ![p] = [NoReq EXCEPT !.chat = chatID, !.a = senderID,
                                               !.content = content, !.id = id]]
    /\ resp' = NoResp
    /\ UNCHANGED <<chats, messages, now, returned, serial, marked>>

\* the row CreateMessage inserts: created_at is msg.CreatedAt, which SendMessage
\* leaves at its zero value, and read_at is not in the column list
NewMessage(id, chatID, senderID, content) ==
    [id |-> id, chatId |-> chatID, senderId |-> senderID, content |-> content,
     createdAt |-> ZeroTime, readAt |-> NULL]

SendMessageInsert(p) ==
    /\ pc[p] = "SendMessage_insert"
    /\ messages' = Append(messages,
                          NewMessage(req[p].id, req[p].chat, req[p].a, req[p].content))
    /\ pc' = [pc EXCEPT ![p] = "SendMessage_touch"]
    /\ resp' = NoResp
    /\ UNCHANGED <<chats, now, req, returned, serial, marked>>

\* UPDATE chats SET updated_at = NOW() WHERE id = $1
TouchChat(chatID) ==
    {IF c.id = chatID THEN [c EXCEPT !.updatedAt = now] ELSE c : c \in chats}

SendMessageTouch(p) ==
    /\ pc[p] = "SendMessage_touch"
    /\ chats' = TouchChat(req[p].chat)
    /\ resp' = [NoResp EXCEPT !.op = "SendMessage", !.chat = req[p].chat, !.a = req[p].a,
                              !.id = req[p].id]
    /\ pc' = [pc EXCEPT ![p] = "idle"]
    /\ req' = [req EXCEPT ![p] = NoReq]
    /\ UNCHANGED <<messages, now, returned, serial, marked>>

\* the lookup GetChatByID fails (the backend is unavailable, the context is
\* cancelled): SendMessage answers every error of the lookup the same way
SendMessageLookupFails(chatID, senderID) ==
    /\ CanCall
    /\ resp' = [NoResp EXCEPT !.op = "SendMessage", !.chat = chatID, !.a = senderID,
                              !.err = ErrChatNotFound, !.fault = "GetChatByID"]
    /\ UNCHANGED <<chats, messages, now, pc, req, returned, serial, marked>>

\* the INSERT of CreateMessage fails: the error is returned as it is
SendMessageInsertFails(p) ==
    /\ pc[p] = "SendMessage_insert"
    /\ resp' = [NoResp EXCEPT !.op = "SendMessage", !.chat = req[p].chat, !.a = req[p].a,
                              !.err = ErrStore, !.fault = "CreateMessage"]
    /\ pc' = [pc EXCEPT ![p] = "idle"]
    /\ req' = [req EXCEPT ![p] = NoReq]
    /\ UNCHANGED <<chats, messages, now, returned, serial, marked>>

\* a CreateMessage that undoes the insert and fails when the chat touch fails
SendMessageTouchFailsRollback(p) ==
    /\ pc[p] = "SendMessage_touch"
    /\ messages' = SelectSeq(messages, LAMBDA m : m.id # req[p].id)
    /\ resp' = [NoResp EXCEPT !.op = "SendMessage", !.chat = req[p].chat, !.a = req[p].a,
                              !.err = ErrStore, !.fault = "touch"]
    /\ pc' = [pc EXCEPT ![p] = "idle"]
    /\ req' = [req EXCEPT ![p] = NoReq]
    /\ UNCHANGED <<chats, now, returned, serial, marked>>

\* the UPDATE of the chat fails or is cancelled: CreateMessage drops the result
\* of ExecContext and returns nil
SendMessageTouchFails(p) ==
    /\ pc[p] = "SendMessage_touch"
    /\ resp' = [NoResp EXCEPT !.op = "SendMessage", !.chat = req[p].chat, !.a = req[p].a,
                              !.id = req[p].id, !.fault = "touch"]
    /\ pc' = [pc EXCEPT ![p] = "idle"]
    /\ req' = [req EXCEPT ![p] = NoReq]
    /\ UNCHANGED <<chats, messages, now, returned, serial, marked>>

\* ----------------------------------------------------------- GetChatMessages
\* a clamp that forgets the default for limit <= 0
ClampLimitNoDefault(limit) == IF limit > MaxLimit THEN MaxLimit ELSE limit

ClampLimit(limit) ==
    IF limit <= 0 THEN DefaultLimit
    ELSE IF limit > MaxLimit THEN MaxLimit
    ELSE limit

\* positions of the rows the WHERE clause of GetChatMessages selects
MessagesWhere(chatID, beforeMessageID) ==
    {i \in DOMAIN messages :
        /\ messages[i].chatId = chatID
        /\ (beforeMessageID # NoCursor => messages[i].id < beforeMessageID)}

Orderings(S) ==
    {f \in [1..Cardinality(S) -> S] : \A i, j \in DOMAIN f : i # j => f[i] # f[j]}

\* ORDER BY created_at DESC: every order of the rows the sort key allows
OrderByCreatedAtDesc(S) ==
    {f \in Orderings(S) :
        \A i, j \in DOMAIN f :
            i < j => messages[f[i]].createdAt >= messages[f[j]].createdAt}

Min(x, y) == IF x <= y THEN x ELSE y

SqlLimit(f, limit) == [i \in 1..Min(limit, Len(f)) |-> f[i]]

Reverse(f) == [i \in 1..Len(f) |-> f[Len(f) + 1 - i]]

\* the pages chatRepository.GetChatMessages can return
RepoGetChatMessages(chatID, limit, beforeMessageID) ==
    {Reverse([i \in DOMAIN g |-> messages[g[i]]]) :
        g \in {SqlLimit(f, limit) :
                 f \in OrderByCreatedAtDesc(MessagesWhere(chatID, beforeMessageID))}}

GetChatMessages(chatID, limit, beforeMessageID) ==
    /\ CanCall
    /\ \E page \in RepoGetChatMessages(chatID, ClampLimit(limit), beforeMessageID) :
         resp' = [NoResp EXCEPT !.op = "GetChatMessages", !.chat = chatID,
                                !.limit = limit, !.before = beforeMessageID,
                                !.storeLimit = ClampLimit(limit), !.page = page,
                                !.store = [page |-> page, err |-> NoError]]
    /\ UNCHANGED <<chats, messages, now, pc, req, returned, serial, marked>>

\* what chatRepository.GetChatMessages returns when the backend fails: nil and
\* the error when QueryContext or a Scan fails; when rows.Next() ends the loop
\* early, the n rows read so far, reversed, beside rows.Err()
RepoGetChatMessagesFails(chatID, limit, beforeMessageID) ==
    {[page |-> <<>>, err |-> ErrStore]}
    \cup
    UNION {{[page |-> Reverse([i \in 1..n |-> messages[g[i]]]), err |-> ErrStore] :
                n \in 0..Len(g)} :
             g \in {SqlLimit(f, limit) :
                      f \in OrderByCreatedAtDesc(MessagesWhere(chatID, beforeMessageID))}}

\* the service drops the page of a failed call and hands the error on
GetChatMessagesFails(chatID, limit, beforeMessageID) ==
    /\ CanCall
    /\ \E r \in RepoGetChatMessagesFails(chatID, ClampLimit(limit), beforeMessageID) :
         resp' = [NoResp EXCEPT !.op = "GetChatMessages", !.chat = chatID,
                                !.limit = limit, !.before = beforeMessageID,
                                !.storeLimit = ClampLimit(limit), !.err = r.err,
                                !.store = r, !.fault = "GetChatMessages"]
    /\ UNCHANGED <<chats, messages, now, pc, req, returned, serial, marked>>

\* A client that pages backward through a chat: the first call has no cursor,
\* every further call passes the id of the oldest message received so far,
\* which is the first message of the page before (pages are oldest first), and
\* the client stops at the first empty page.
PageSizes == {1, 2}

ChatMessageIds(chatID) ==
    {messages[i].id : i \in {j \in DOMAIN messages : messages[j].chatId = chatID}}

PagingFirst(p, chatID, k) ==
    /\ pc[p] = "idle" /\ Sched(p)
    /\ \E page \in RepoGetChatMessages(chatID, ClampLimit(k), NoCursor) :
         IF page = <<>>
         THEN /\ resp' = [NoResp EXCEPT !.op = "Paging", !.chat = chatID, !.limit = k,
                                        !.start = ChatMessageIds(chatID)]
              /\ UNCHANGED <<pc, req>>
         ELSE /\ pc' = [pc EXCEPT ![p] = "Paging_next"]
              /\ req' = [req EXCEPT ![p] = [NoReq EXCEPT !.chat = chatID, !.limit = k,
                                                         !.id = page[1].id, !.got = page,
                                                         !.start = ChatMessageIds(chatID)]]
              /\ resp' = NoResp
    /\ UNCHANGED <<chats, messages, now, returned, serial, marked>>

PagingNext(p) ==
    /\ pc[p] = "Paging_next"
    /\ \E page \in RepoGetChatMessages(req[p].chat, ClampLimit(req[p].limit), req[p].id) :
         IF page = <<>>
         THEN /\ resp' = [NoResp EXCEPT !.op = "Paging", !.chat = req[p].chat,
                                        !.limit = req[p].limit, !.page = req[p].got,
                                        !.start = req[p].start]
              /\ pc' = [pc EXCEPT ![p] = "idle"]
              /\ req' = [req EXCEPT ![p] = NoReq]
         ELSE /\ req' = [req EXCEPT ![p].id = page[1].id, ![p].got = page \o req[p].got]
              /\ resp' = NoResp
              /\ UNCHANGED pc
    /\ UNCHANGED <<chats, messages, now, returned, serial, marked>>

\* -------------------------------------------------------- MarkMessagesAsRead
MarkMessagesAsReadNotFound(chatID, userID) ==
    /\ CanCall
    /\ GetChatByID(chatID) = {}
    /\ resp' = [NoResp EXCEPT !.op = "MarkMessagesAsRead", !.chat = chatID, !.a = userID,
                              !.err = ErrChatNotFound]
    /\ UNCHANGED <<chats, messages, now, pc, req, returned, serial, marked>>

MarkMessagesAsReadDenied(chatID, userID) ==
    /\ CanCall
    /\ \E chat \in GetChatByID(chatID) : ~IsParticipant(chat, userID)
    /\ resp' = [NoResp EXCEPT !.op = "MarkMessagesAsRead", !.chat = chatID, !.a = userID,
                              !.err = ErrNotParticipant]
    /\ UNCHANGED <<chats, messages, now, pc, req, returned, serial, marked>>

\* the messages of the chat whose SendMessage has returned
SentMessageIds(chatID) ==
    {id \in ChatMessageIds(chatID) :
        \A q \in Procs : pc[q] = "SendMessage_touch" => req[q].id # id}

\* start records the messages sent before the call began
MarkMessagesAsReadLookup(p, chatID, userID) ==
    /\ pc[p] = "idle" /\ Sched(p)
    /\ \E chat \in GetChatByID(chatID) : IsParticipant(chat, userID)
    /\ pc' = [pc EXCEPT ![p] = "MarkMessagesAsRead_update"]
    /\ req' = [req EXCEPT ![p] = [NoReq EXCEPT !.chat = chatID, !.a = userID,
                                               !.start = SentMessageIds(chatID)]]
    /\ resp' = NoResp
    /\ UNCHANGED <<chats, messages, now, returned, serial, marked>>

\* the WHERE clause of MarkMessagesAsRead without read_at IS NULL
MarkWhereReadOrNot(chatID, userID) ==
    {i \in DOMAIN messages :
        messages[i].chatId = chatID /\ messages[i].senderId # userID}

\* the WHERE clause of MarkMessagesAsRead without sender_id != $2
MarkWhereAnySender(chatID, userID) ==
    {i \in DOMAIN messages :
        messages[i].chatId = chatID /\ messages[i].readAt = NULL}

\* the WHERE clause of MarkMessagesAsRead with sender_id = $2
MarkWhereOwn(chatID, userID) ==
    {i \in DOMAIN messages :
        /\ messages[i].chatId = chatID
        /\ messages[i].senderId = userID
        /\ messages[i].readAt = NULL}

\* positions of the rows the WHERE clause of MarkMessagesAsRead selects
MarkWhere(chatID, userID) ==
    {i \in DOMAIN messages :
        /\ messages[i].chatId = chatID
        /\ messages[i].senderId # userID
        /\ messages[i].readAt = NULL}

\* an UPDATE that stamps every message of the other participant anew
RepoMarkMessagesAsReadAnew(chatID, userID) ==
    [i \in DOMAIN messages |->
        IF messages[i].chatId = chatID /\ messages[i].senderId # userID
        THEN [messages[i] EXCEPT !.readAt = Some(now)]
        ELSE messages[i]]

\* UPDATE messages SET read_at = NOW() WHERE ...: the table afterwards
RepoMarkMessagesAsRead(chatID, userID) ==
    [i \in DOMAIN messages |->
        IF i \in MarkWhere(chatID, userID)
        THEN [messages[i] EXCEPT !.readAt = Some(now)]
        ELSE messages[i]]

\* a call that answers with the number of rows of the other participant, read
\* before or not
MarkMessagesAsReadUpdateCountsAll(p) ==
    /\ pc[p] = "MarkMessagesAsRead_update"
    /\ messages' = RepoMarkMessagesAsRead(req[p].chat, req[p].a)
    /\ resp' = [NoResp EXCEPT !.op = "MarkMessagesAsRead", !.chat = req[p].chat,
                              !.a = req[p].a,
                              !.count = Cardinality(MarkWhereReadOrNot(req[p].chat, req[p].a))]
    /\ marked' = marked + Cardinality(MarkWhereReadOrNot(req[p].chat, req[p].a))
    /\ pc' = [pc EXCEPT ![p] = "idle"]
    /\ req' = [req EXCEPT ![p] = NoReq]
    /\ UNCHANGED <<chats, now, returned, serial>>

MarkMessagesAsReadUpdate(p) ==
    /\ pc[p] = "MarkMessagesAsRead_update"
    /\ messages' = RepoMarkMessagesAsRead(req[p].chat, req[p].a)
    /\ resp' = [NoResp EXCEPT !.op = "MarkMessagesAsRead", !.chat = req[p].chat,
                              !.a = req[p].a,
                              !.count = Cardinality(MarkWhere(req[p].chat, req[p].a))]
    /\ marked' = marked + Cardinality(MarkWhere(req[p].chat, req[p].a))
    /\ pc' = [pc EXCEPT ![p] = "idle"]
    /\ req' = [req EXCEPT ![p] = NoReq]
    /\ UNCHANGED <<chats, now, returned, serial>>

\* the lookup GetChatByID fails: MarkMessagesAsRead answers every error of the
\* lookup the same way
MarkMessagesAsReadLookupFails(chatID, userID) ==
    /\ CanCall
    /\ resp' = [NoResp EXCEPT !.op = "MarkMessagesAsRead", !.chat = chatID, !.a = userID,
                              !.err = ErrChatNotFound, !.fault = "GetChatByID"]
    /\ UNCHANGED <<chats, messages, now, pc, req, returned, serial, marked>>

\* the UPDATE of MarkMessagesAsRead fails: no row is written, the error is
\* returned as it is
MarkMessagesAsReadUpdateFails(p) ==
    /\ pc[p] = "MarkMessagesAsRead_update"
    /\ resp' = [NoResp EXCEPT !.op = "MarkMessagesAsRead", !.chat = req[p].chat,
                              !.a = req[p].a, !.err = ErrStore,
                              !.fault = "MarkMessagesAsRead"]
    /\ pc' = [pc EXCEPT ![p] = "idle"]
    /\ req' = [req EXCEPT ![p] = NoReq]
    /\ UNCHANGED <<chats, messages, now, returned, serial, marked>>

\* ----------------------------------------------------- GetChat, GetUserChats
GetChat(chatID) ==
    /\ CanCall
    /\ IF GetChatByID(chatID) = {}
       THEN resp' = [NoResp EXCEPT !.op = "GetChat", !.chat = chatID, !.err = ErrChatNotFound]
       ELSE resp' = [NoResp EXCEPT !.op = "GetChat", !.chat = chatID, !.id = chatID]
    /\ UNCHANGED <<chats, messages, now, pc, req, returned, serial, marked>>

\* WHERE user_id1 = $1 OR user_id2 = $1
ChatsOfUser(userID) == {c \in chats : IsParticipant(c, userID)}

\* ORDER BY updated_at DESC: every order of the rows the sort key allows
OrderByUpdatedAtDesc(S) ==
    {f \in Orderings(S) :
        \A i, j \in DOMAIN f : i < j => f[i].updatedAt >= f[j].updatedAt}

GetUserChats(userID) ==
    /\ CanCall
    /\ \E list \in OrderByUpdatedAtDesc(ChatsOfUser(userID)) :
         resp' = [NoResp EXCEPT !.op = "GetUserChats", !.a = userID, !.page = list]
    /\ UNCHANGED <<chats, messages, now, pc, req, returned, serial, marked>>

\* ------------------------------------------------------------- gRPC adapter
\* a mapping that knows "chat not found" only
StatusNotFoundOnly(op, err) ==
    IF err = NoError THEN "OK"
    ELSE IF op \in {"GetChat", "SendMessage", "MarkMessagesAsRead"} /\ err = ErrChatNotFound
         THEN "NotFound"
    ELSE "Internal"

\* the status code ChatServer answers with, from the service's error
Status(op, err) ==
    IF err = NoError THEN "OK"
    ELSE IF op \in {"GetChat", "SendMessage", "MarkMessagesAsRead"} /\ err = ErrChatNotFound
         THEN "NotFound"
    ELSE IF op \in {"SendMessage", "MarkMessagesAsRead"} /\ err = ErrNotParticipant
         THEN "PermissionDenied"
    ELSE "Internal"

Tick ==
    /\ now < MaxTime
    /\ now' = now + 1
    /\ resp' = NoResp
    /\ UNCHANGED <<chats, messages, pc, req, returned, serial, marked>>

\* -------------------------------------------------------------- specification
Common ==
    /\ messages = <<>>
    /\ now = 1
    /\ pc = [p \in Procs |-> "idle"]
    /\ req = [p \in Procs |-> NoReq]
    /\ resp = NoResp
    /\ returned = {}
    /\ marked = 0

\* the service over an empty database
Init == Common /\ chats = {} /\ serial = FALSE
InitSeq == Common /\ chats = {} /\ serial = TRUE

\* the rows CreateChat("u1", "u2") and CreateChat("u2", "u3") leave behind
TwoChats ==
    {[id |-> 1, user1 |-> "u1", user2 |-> "u2", createdAt |-> ZeroTime, updatedAt |-> ZeroTime],
     [id |-> 2, user1 |-> "u2", user2 |-> "u3", createdAt |-> ZeroTime, updatedAt |-> ZeroTime]}

\* the service over a database that holds two chats and no message yet
InitMsgs == Common /\ chats = TwoChats /\ serial = FALSE
InitMsgsSeq == Common /\ chats = TwoChats /\ serial = TRUE

\* the row an earlier CreateChat("u1", "u2") left behind, under an id that
\* uuid.New() will not issue again
OldChat ==
    [id |-> MaxChats + 1, user1 |-> "u1", user2 |-> "u2",
     createdAt |-> ZeroTime, updatedAt |-> ZeroTime]

\* the service over a database that holds that chat and no message yet
InitActivity == Common /\ chats = {OldChat} /\ serial = FALSE

\* the chat operations
NextChats ==
    \/ \E u \in Users : CreateChatSelf(u)
    \/ \E u1, u2 \in Users : CreateChatExisting(u1, u2)
    \/ \E p \in Procs, u1, u2 \in Users, id \in ChatIds : CreateChatLookupMiss(p, u1, u2, id)
    \/ \E p \in Procs : CreateChatInsert(p)
    \/ \E c \in RequestChatIds : GetChat(c)
    \/ \E u \in Users : GetUserChats(u)
    \/ Tick

\* sending and paging through messages; NOW() is read by neither
NextPages ==
    \/ \E c \in RequestChatIds, u \in Users : SendMessageNotFound(c, u)
    \/ \E c \in RequestChatIds, u \in Users : SendMessageDenied(c, u)
    \/ \E p \in Procs, c \in RequestChatIds, u \in Users, t \in Contents, id \in MsgIds :
          SendMessageLookup(p, c, u, t, id)
    \/ \E p \in Procs : SendMessageInsert(p)
    \/ \E p \in Procs : SendMessageTouch(p)
    \/ \E c \in RequestChatIds, l \in Limits, b \in {NoCursor} \cup MsgIds :
          GetChatMessages(c, l, b)

\* sending and read-marking; no statement of these reads a message id, so the
\* identifiers are issued lowest first
NextRead ==
    \/ \E c \in RequestChatIds, u \in Users : SendMessageNotFound(c, u)
    \/ \E c \in RequestChatIds, u \in Users : SendMessageDenied(c, u)
    \/ \E p \in Procs, c \in RequestChatIds, u \in Users, t \in Contents,
          id \in LowestFreshMsgId :
          SendMessageLookup(p, c, u, t, id)
    \/ \E p \in Procs : SendMessageInsert(p)
    \/ \E p \in Procs : SendMessageTouch(p)
    \/ \E c \in RequestChatIds, u \in Users : MarkMessagesAsReadNotFound(c, u)
    \/ \E c \in RequestChatIds, u \in Users : MarkMessagesAsReadDenied(c, u)
    \/ \E p \in Procs, c \in RequestChatIds, u \in Users : MarkMessagesAsReadLookup(p, c, u)
    \/ \E p \in Procs : MarkMessagesAsReadUpdate(p)
    \/ Tick

\* the statements of SendMessage and MarkMessagesAsRead the backend may fail
NextReadFaults ==
    \/ \E c \in RequestChatIds, u \in Users : SendMessageLookupFails(c, u)
    \/ \E p \in Procs : SendMessageInsertFails(p)
    \/ \E p \in Procs : SendMessageTouchFails(p)
    \/ \E c \in RequestChatIds, u \in Users : MarkMessagesAsReadLookupFails(c, u)
    \/ \E p \in Procs : MarkMessagesAsReadUpdateFails(p)

\* SendMessage on a chat of the sender, over a backend that may fail the INSERT
\* and the chat touch
NextSendFaults ==
    \/ \E p \in Procs, c \in RequestChatIds, u \in Users, t \in Contents,
          id \in LowestFreshMsgId :
          SendMessageLookup(p, c, u, t, id)
    \/ \E p \in Procs : SendMessageInsert(p)
    \/ \E p \in Procs : SendMessageTouch(p)
    \/ \E p \in Procs : SendMessageInsertFails(p)
    \/ \E p \in Procs : SendMessageTouchFails(p)
    \/ Tick

\* sending, and clients that page backward through a chat
NextPaging ==
    \/ \E p \in Procs, c \in RequestChatIds, u \in Users, t \in Contents, id \in MsgIds :
          SendMessageLookup(p, c, u, t, id)
    \/ \E p \in Procs : SendMessageInsert(p)
    \/ \E p \in Procs : SendMessageTouch(p)
    \/ \E p \in Procs, c \in ChatIds, k \in PageSizes : PagingFirst(p, c, k)
    \/ \E p \in Procs : PagingNext(p)

\* what moves updated_at, and the listing that sorts by it
NextActivity ==
    \/ \E p \in Procs, u1, u2 \in Users, id \in ChatIds : CreateChatLookupMiss(p, u1, u2, id)
    \/ \E p \in Procs : CreateChatInsert(p)
    \/ \E p \in Procs, c \in RequestChatIds, u \in Users, t \in Contents,
          id \in LowestFreshMsgId :
          SendMessageLookup(p, c, u, t, id)
    \/ \E p \in Procs : SendMessageInsert(p)
    \/ \E p \in Procs : SendMessageTouch(p)
    \/ \E u \in Users : GetUserChats(u)
    \/ Tick

\* the statements of SendMessage and MarkMessagesAsRead by participants, which
\* race on the messages table; the clock stands, as neither reads a time
NextReadRace ==
    \/ \E p \in Procs, c \in RequestChatIds, u \in Users, t \in Contents,
          id \in LowestFreshMsgId :
          SendMessageLookup(p, c, u, t, id)
    \/ \E p \in Procs : SendMessageInsert(p)
    \/ \E p \in Procs : SendMessageTouch(p)
    \/ \E p \in Procs, c \in RequestChatIds, u \in Users : MarkMessagesAsReadLookup(p, c, u)
    \/ \E p \in Procs : MarkMessagesAsReadUpdate(p)

\* GetChatMessages over a backend that fails
NextPagesFaults ==
    \E c \in RequestChatIds, l \in Limits, b \in {NoCursor} \cup MsgIds :
        GetChatMessagesFails(c, l, b)

Next ==
    \/ NextChats \/ NextPages \/ NextRead
    \/ NextReadFaults \/ NextSendFaults \/ NextPagesFaults \/ NextPaging
    \/ NextActivity \/ NextReadRace

\* all six operations, any interleaving
Spec == Init /\ [][Next]_vars
\* the operations that add rows, with the refusals of SendMessage; the message
\* ids are issued lowest first and the clock stands.  GetChat, GetUserChats and
\* GetChatMessages write nothing and MarkMessagesAsRead writes read_at alone.
NextWrites ==
    \/ \E p \in Procs, u1, u2 \in Users, id \in ChatIds : CreateChatLookupMiss(p, u1, u2, id)
    \/ \E p \in Procs : CreateChatInsert(p)
    \/ \E c \in RequestChatIds, u \in Users : SendMessageNotFound(c, u)
    \/ \E c \in RequestChatIds, u \in Users : SendMessageDenied(c, u)
    \/ \E p \in Procs, c \in RequestChatIds, u \in Users, t \in Contents,
          id \in LowestFreshMsgId :
          SendMessageLookup(p, c, u, t, id)
    \/ \E p \in Procs : SendMessageInsert(p)
    \/ \E p \in Procs : SendMessageTouch(p)

\* creating chats and sending into them from an empty database, one call at a
\* time
SpecWritesSeq == InitSeq /\ [][NextWrites]_vars
\* the chat operations alone: concurrent clients, and one call at a time
SpecChats == Init /\ [][NextChats]_vars
SpecChatsSeq == InitSeq /\ [][NextChats]_vars
\* sending and paging on two existing chats
SpecPages == InitMsgs /\ [][NextPages]_vars
SpecPagesSeq == InitMsgsSeq /\ [][NextPages]_vars
\* sending and read-marking on two existing chats
SpecRead == InitMsgs /\ [][NextRead]_vars
SpecReadSeq == InitMsgsSeq /\ [][NextRead]_vars
\* sending and backward paging on two existing chats, by concurrent clients
SpecPaging == InitMsgs /\ [][NextPaging]_vars
\* sending and paging, one call at a time, over a backend that may fail the
\* query of GetChatMessages
SpecPagesFaults == InitMsgsSeq /\ [][NextPages \/ NextPagesFaults]_vars
\* creating chats, sending and listing chats beside one existing chat, by
\* concurrent clients
SpecActivity == InitActivity /\ [][NextActivity]_vars
\* sending and read-marking by participants, by concurrent clients
SpecReadRace == InitMsgs /\ [][NextReadRace]_vars
\* the same over a backend that may fail any statement
SpecReadFaults == InitMsgsSeq /\ [][NextRead \/ NextReadFaults]_vars
\* sending alone over such a backend, by concurrent clients
SpecSendFaults == InitMsgs /\ [][NextSendFaults]_vars
\* -------------------------------------------------------------- properties
\* the messages of a chat, in the order they were sent
ChatMessages(chatID) == SelectSeq(messages, LAMBDA m : m.chatId = chatID)

\* the rows of the chats table for an unordered pair of users
RowsOfPair(pair) == {c \in chats : {c.user1, c.user2} = pair}

\* C1: in every reachable state the chats table holds at most one row per
\* unordered pair of users: never (a,b) beside (b,a), nor (a,b) twice.
C1_OneChatPerPair ==
    \A c1, c2 \in chats :
        {c1.user1, c1.user2} = {c2.user1, c2.user2} => c1 = c2

\* C2: CreateChat calls issued one after another for the same pair of distinct
\* users, in the same or in the swapped order, all succeed and return the same
\* chat id, and the pair then has exactly one row.
C2_SequentialCreateSameChat ==
    /\ resp.op = "CreateChat" /\ resp.a # resp.b => resp.err = NoError
    /\ \A r \in returned :
         /\ \A c \in RowsOfPair(r[1]) : c.id = r[2]
         /\ Cardinality(RowsOfPair(r[1])) = 1

\* a second CreateChat, with the ids swapped, has just returned the existing chat
C2_Witness ==
    /\ resp.op = "CreateChat" /\ resp.err = NoError
    /\ \E c \in chats : c.id = resp.id /\ c.user1 = resp.b /\ c.user2 = resp.a

\* the page the claim C3 expects: the min(k, J-1) messages sent just before the
\* J-th message of the chat, oldest first
PageBefore(chatID, k, J) ==
    SubSeq(ChatMessages(chatID), J - Min(k, J - 1), J - 1)

\* C3: GetChatMessages(chat, limit=k, before=mJ.id) returns exactly the
\* min(k, J-1) messages sent immediately before mJ, oldest first, whatever the
\* identifiers of the messages are.
C3_PageBeforeCursor ==
    (resp.op = "GetChatMessages" /\ resp.before # NoCursor) =>
        \A J \in DOMAIN ChatMessages(resp.chat) :
            ChatMessages(resp.chat)[J].id = resp.before =>
                resp.page = PageBefore(resp.chat, resp.storeLimit, J)

\* C4: for messages m1..mN sent one after another into a chat,
\* GetChatMessages(chat, limit=N, no cursor) returns exactly [m1..mN], in the
\* order they were sent.
C4_LatestPageInSendOrder ==
    (/\ resp.op = "GetChatMessages"
     /\ resp.before = NoCursor
     /\ resp.limit = Len(ChatMessages(resp.chat))) =>
        resp.page = ChatMessages(resp.chat)

\* the step in which client p's MarkMessagesAsRead runs its UPDATE and returns
MarkStep(p) == pc[p] = "MarkMessagesAsRead_update" /\ pc'[p] = "idle"

\* every message of the chat that userID did not send has been read
CaughtUp(table, chatID, userID) ==
    \A i \in DOMAIN table :
        (table[i].chatId = chatID /\ table[i].senderId # userID) => table[i].readAt # NULL

\* C5: when MarkMessagesAsRead(chat, reader) returns, every message of the chat
\* not sent by reader has a read time; and a MarkMessagesAsRead(chat, reader)
\* that starts from such a table (as the immediately following call does)
\* returns 0 and changes no message.
C5_MarkCatchesUp ==
    [][\A p \in Procs :
         MarkStep(p) =>
           /\ resp'.op = "MarkMessagesAsRead" /\ resp'.err = NoError
           /\ CaughtUp(messages', req[p].chat, req[p].a)
           /\ CaughtUp(messages, req[p].chat, req[p].a) =>
                (resp'.count = 0 /\ messages' = messages)]_vars

\* a MarkMessagesAsRead has returned 0 on a chat whose message from the other
\* participant an earlier call of the same reader had marked
C5_Witness ==
    /\ resp.op = "MarkMessagesAsRead" /\ resp.err = NoError /\ resp.count = 0
    /\ \E i \in DOMAIN messages :
         /\ messages[i].chatId = resp.chat
         /\ messages[i].senderId # resp.a
         /\ messages[i].readAt # NULL

\* C6: a SendMessage on an existing chat by a user who is neither of its two
\* participants is answered PermissionDenied, and the step that answers it
\* leaves the messages and the chats (so every updatedAt) as they were.
C6_NonParticipantDenied ==
    [][(/\ resp'.op = "SendMessage"
        /\ \E c \in chats : c.id = resp'.chat /\ c.user1 # resp'.a /\ c.user2 # resp'.a) =>
          /\ Status(resp'.op, resp'.err) = "PermissionDenied"
          /\ messages' = messages
          /\ chats' = chats]_vars

\* a non-participant was refused on a chat that already holds a message and
\* has been touched
C6_Witness ==
    /\ resp.op = "SendMessage" /\ resp.err = ErrNotParticipant
    /\ \E c \in chats : c.id = resp.chat /\ c.updatedAt # ZeroTime
    /\ \E i \in DOMAIN messages : messages[i].chatId = resp.chat

\* C7: CreateChat(x, x) fails with the service's validation error and creates
\* no row, so no chat ever has user1 = user2.
C7_NoSelfChat ==
    /\ [](\A c \in chats : c.user1 # c.user2)
    /\ [][(resp'.op = "CreateChat" /\ resp'.a = resp'.b) =>
            /\ resp'.err = ErrSelfChat
            /\ Status(resp'.op, resp'.err) = "Internal"
            /\ chats' = chats]_vars

\* CreateChat(x, x) was refused while the table already held a chat of x
C7_Witness ==
    /\ resp.op = "CreateChat" /\ resp.a = resp.b /\ resp.err = ErrSelfChat
    /\ \E c \in chats : c.user1 = resp.a \/ c.user2 = resp.a

\* C8: MarkMessagesAsRead(chat, reader) returns exactly the number of messages
\* whose readAt it changed from null to set, and leaves unchanged every
\* message sent by reader, every message of another chat and every message
\* already read; it adds and removes none.
C8_MarkCountAndFrame ==
    [][\A p \in Procs :
         MarkStep(p) =>
           /\ DOMAIN messages' = DOMAIN messages
           /\ resp'.count =
                Cardinality({i \in DOMAIN messages :
                               messages[i].readAt = NULL /\ messages'[i].readAt # NULL})
           /\ \A i \in DOMAIN messages :
                (\/ messages[i].senderId = req[p].a
                 \/ messages[i].chatId # req[p].chat
                 \/ messages[i].readAt # NULL) => messages'[i] = messages[i]]_vars

\* a call has marked one message and left another message unread
C8_Witness ==
    /\ resp.op = "MarkMessagesAsRead" /\ resp.count = 1
    /\ \E i, j \in DOMAIN messages :
         /\ messages[i].chatId = resp.chat /\ messages[i].readAt # NULL
         /\ messages[j].readAt = NULL

\* C9: CreateChat calls for the same unordered pair of distinct users that run
\* concurrently, in the same or in swapped order, all succeed and all return
\* the id of the same chat.
C9_ConcurrentCreateSameChat ==
    /\ resp.op = "CreateChat" /\ resp.a # resp.b => resp.err = NoError
    /\ \A r1, r2 \in returned : r1[1] = r2[1] => r1[2] = r2[2]

\* C10: the limit handed to the store is 50 when limit <= 0, 100 when
\* limit > 100 and limit itself otherwise, so a page never holds more than
\* that many, and never more than 100, messages.
C10_LimitClamped ==
    resp.op = "GetChatMessages" =>
        /\ resp.storeLimit = (IF resp.limit <= 0 THEN 50
                              ELSE IF resp.limit > 100 THEN 100
                              ELSE resp.limit)
        /\ Len(resp.page) <= resp.storeLimit
        /\ Len(resp.page) <= 100

\* a limit of 1 has cut a page short of the chat's messages
C10_Witness ==
    /\ resp.op = "GetChatMessages" /\ resp.limit = 1
    /\ Len(resp.page) = 1
    /\ Len(ChatMessages(resp.chat)) > 1

\* C11: MarkMessagesAsRead(chat, user) on an existing chat by a user who is not
\* one of its two participants is answered PermissionDenied, and on a chat that
\* does not exist NotFound; the step that answers leaves every message (so
\* every readAt) and every chat as it was.
C11_MarkRefused ==
    [][resp'.op = "MarkMessagesAsRead" =>
         /\ (\E c \in chats : c.id = resp'.chat /\ c.user1 # resp'.a /\ c.user2 # resp'.a) =>
               /\ Status(resp'.op, resp'.err) = "PermissionDenied"
               /\ messages' = messages
               /\ chats' = chats
         /\ (\A c \in chats : c.id # resp'.chat) =>
               /\ Status(resp'.op, resp'.err) = "NotFound"
               /\ messages' = messages
               /\ chats' = chats]_vars

\* a non-participant was refused on a chat that holds an unread message
C11_Witness ==
    /\ resp.op = "MarkMessagesAsRead" /\ resp.err = ErrNotParticipant
    /\ \E c \in chats : c.id = resp.chat /\ c.user1 # resp.a /\ c.user2 # resp.a
    /\ \E i \in DOMAIN messages :
         messages[i].chatId = resp.chat /\ messages[i].readAt = NULL

\* C12: when the INSERT of CreateMessage has succeeded and the UPDATE of the
\* chat then fails or is cancelled, the call returns success with the message's
\* id, the message is in the table, no message is removed, and the chat's
\* updatedAt keeps its old value.
C12_TouchFailureKeepsMessage ==
    [][\A p \in Procs :
         (pc[p] = "SendMessage_touch" /\ pc'[p] = "idle" /\ resp'.fault = "touch") =>
           /\ resp'.op = "SendMessage" /\ resp'.err = NoError /\ resp'.id = req[p].id
           /\ \E i \in DOMAIN messages' :
                /\ messages'[i].id = req[p].id
                /\ messages'[i].chatId = req[p].chat
                /\ messages'[i].senderId = req[p].a
           /\ messages' = messages
           /\ chats' = chats]_vars

\* a SendMessage has succeeded although its chat touch failed: the message is
\* stored and the chat has never been touched
C12_Witness ==
    /\ resp.op = "SendMessage" /\ resp.fault = "touch" /\ resp.err = NoError
    /\ \E i \in DOMAIN messages : messages[i].id = resp.id /\ messages[i].chatId = resp.chat
    /\ \E c \in chats : c.id = resp.chat /\ c.updatedAt = ZeroTime

\* whether two answers of GetUserChats order their chats of equal updatedAt by
\* chat id in the same direction
SameTieBreak(page1, page2) ==
    \A i, j \in DOMAIN page1, k, l \in DOMAIN page2 :
        (/\ i < j /\ page1[i].updatedAt = page1[j].updatedAt
         /\ k < l /\ page2[k].updatedAt = page2[l].updatedAt) =>
            ((page1[i].id < page1[j].id) <=> (page2[k].id < page2[l].id))

\* C13: GetUserChats(user) returns exactly the chats in which user is user1 or
\* user2, each once, by updatedAt descending, and chats of equal updatedAt come
\* in an order the chat id determines: the same direction in every answer.
C13_UserChatsOrder ==
    /\ [](resp.op = "GetUserChats" =>
            /\ {resp.page[i] : i \in DOMAIN resp.page} =
                  {c \in chats : c.user1 = resp.a \/ c.user2 = resp.a}
            /\ \A i, j \in DOMAIN resp.page :
                  i < j => /\ resp.page[i] # resp.page[j]
                           /\ resp.page[i].updatedAt >= resp.page[j].updatedAt)
    /\ [][(resp.op = "GetUserChats" /\ resp'.op = "GetUserChats") =>
            SameTieBreak(resp.page, resp'.page)]_vars

\* C14: a client that pages backward through a chat with limit k, passing each
\* time the id of the oldest message received so far, until an empty page
\* comes back, has then received every message the chat held when it started
\* exactly once, and no message twice, also when SendMessage calls on the chat
\* interleave with its calls.
C14_PagingComplete ==
    resp.op = "Paging" =>
        /\ \A id \in resp.start :
              Cardinality({i \in DOMAIN resp.page : resp.page[i].id = id}) = 1
        /\ \A i, j \in DOMAIN resp.page :
              resp.page[i].id = resp.page[j].id => i = j

\* the rows of the messages table
StoredMessages(table) == {table[i] : i \in DOMAIN table}

\* C15: no step deletes a stored message or changes its chat id, sender,
\* content or createdAt, and a readAt that is set is never changed or reset:
\* the only change a message ever sees is readAt going from null to set.
C15_MessageImmutable ==
    [][\A m \in StoredMessages(messages) :
         \E n \in StoredMessages(messages') :
            /\ n.id = m.id
            /\ n.chatId = m.chatId
            /\ n.senderId = m.senderId
            /\ n.content = m.content
            /\ n.createdAt = m.createdAt
            /\ m.readAt # NULL => n.readAt = m.readAt]_vars

\* a MarkMessagesAsRead by either participant has returned at a later time
\* than the one a message of the chat was read at
C15_Witness ==
    /\ resp.op = "MarkMessagesAsRead" /\ resp.err = NoError
    /\ \E i \in DOMAIN messages :
         /\ messages[i].chatId = resp.chat
         /\ messages[i].senderId # resp.a
         /\ messages[i].readAt # NULL /\ messages[i].readAt # Some(now)

\* C16: in every reachable state every stored message belongs to a chat that
\* exists, and its sender is one of that chat's two participants.
C16_MessageOfParticipant ==
    \A i \in DOMAIN messages :
        \E c \in chats :
            /\ c.id = messages[i].chatId
            /\ messages[i].senderId \in {c.user1, c.user2}

\* two chats exist, each holds a message, and both senders are the user the
\* chats share
C16_Witness ==
    \E i, j \in DOMAIN messages :
        /\ messages[i].chatId # messages[j].chatId
        /\ messages[i].senderId = messages[j].senderId
        /\ Cardinality(chats) = 2

\* C17: SendMessage and MarkMessagesAsRead answer NotFound only when no chat
\* has the id asked for; a lookup of the chat that fails because the backend is
\* unavailable is answered with the generic failure, not with NotFound.
C17_NotFoundOnlyWhenAbsent ==
    resp.op \in {"SendMessage", "MarkMessagesAsRead"} =>
        /\ Status(resp.op, resp.err) = "NotFound" => \A c \in chats : c.id # resp.chat
        /\ resp.fault = "GetChatByID" => Status(resp.op, resp.err) = "Internal"

\* C18: chatRepository.GetChatMessages never returns messages beside an error:
\* when the call fails, also after some rows were read, its page is empty.
C18_NoPartialPage ==
    (resp.op = "GetChatMessages" /\ resp.store.err # NoError) => resp.store.page = <<>>

\* C19: a CreateChat for a pair that already has a chat, the ids given in
\* either order, returns that chat and leaves its stored updatedAt at the time
\* of the call.
C19_ExistingChatRefreshed ==
    [][(/\ resp'.op = "CreateChat" /\ resp'.err = NoError
        /\ \E c \in chats : {c.user1, c.user2} = {resp'.a, resp'.b}) =>
          \E c \in chats' :
             /\ {c.user1, c.user2} = {resp'.a, resp'.b}
             /\ c.id = resp'.id
             /\ c.updatedAt = now]_vars

\* a message of the chat is stored and the SendMessage that sent it has returned
HasSentMessage(chatID) ==
    \E i \in DOMAIN messages :
        /\ messages[i].chatId = chatID
        /\ \A p \in Procs : pc[p] = "SendMessage_touch" => req[p].id # messages[i].id

\* a message of the chat is stored
HasMessage(chatID) == \E i \in DOMAIN messages : messages[i].chatId = chatID

\* C20: after a SendMessage into chat C succeeded with its chat touch, C comes
\* first in GetUserChats of its participants until another of their chats
\* receives a message: a chat listed before C, with a later updatedAt, has
\* received a message (the order of chats of equal updatedAt is left open
\* here); and no step makes the updatedAt of a chat earlier.
C20_ActiveChatFirst ==
    /\ [](resp.op = "GetUserChats" =>
            \A i, j \in DOMAIN resp.page :
                (/\ i < j
                 /\ resp.page[i].updatedAt > resp.page[j].updatedAt
                 /\ HasSentMessage(resp.page[j].id)) => HasMessage(resp.page[i].id))
    /\ [][\A c \in chats : \A d \in chats' : d.id = c.id => d.updatedAt >= c.updatedAt]_vars

\* C21: when MarkMessagesAsRead(chat, reader) returns, every message of the
\* other participant whose SendMessage had returned before the call began has
\* a read time, whatever SendMessage calls ran beside it (a message sent
\* meanwhile may or may not have one), and the call has changed no message sent
\* by reader.
C21_MarkCatchesUpAsOfStart ==
    [][\A p \in Procs :
         MarkStep(p) =>
           /\ \A id \in req[p].start :
                \E i \in DOMAIN messages' :
                   /\ messages'[i].id = id
                   /\ messages'[i].senderId # req[p].a => messages'[i].readAt # NULL
           /\ \A i \in DOMAIN messages :
                messages[i].senderId = req[p].a => messages'[i] = messages[i]]_vars

\* a MarkMessagesAsRead has marked a message while a SendMessage of the other
\* participant into the same chat is under way, and the reader's own message
\* there is unread
C21_Witness ==
    /\ resp.op = "MarkMessagesAsRead" /\ resp.err = NoError /\ resp.count > 0
    /\ \E q \in Procs :
         /\ pc[q] \in {"SendMessage_insert", "SendMessage_touch"}
         /\ req[q].chat = resp.chat /\ req[q].a # resp.a
    /\ \E i \in DOMAIN messages :
         /\ messages[i].chatId = resp.chat
         /\ messages[i].senderId = resp.a /\ messages[i].readAt = NULL

\* C22: however MarkMessagesAsRead calls on a chat interleave, each change of a
\* readAt from null to set is counted by exactly one call: the counts returned
\* so far add up to the number of messages that have a read time.
C22_CountsAddUp ==
    marked = Cardinality({i \in DOMAIN messages : messages[i].readAt # NULL})

\* one MarkMessagesAsRead has marked a message and returned 1 while another
\* call of the same reader on the same chat, begun before, has its UPDATE
\* still to run
C22_Witness ==
    /\ resp.op = "MarkMessagesAsRead" /\ resp.err = NoError /\ resp.count = 1
    /\ marked = 1
    /\ \E q \in Procs :
         /\ pc[q] = "MarkMessagesAsRead_update"
         /\ req[q].chat = resp.chat /\ req[q].a = resp.a
=============================================================================
